---------------------------- MODULE Spec2Model ----------------------------
(***************************************************************************)
(* Model of src/main.py (whatsapp-exif-tool): the batch that gives every   *)
(* image and video of an input tree a capture date taken from its file     *)
(* name, writing the result under an output root.                          *)
(*                                                                         *)
(* The state is the file system (contents by path, output directories),    *)
(* the run's arguments, the position of main() and process_file(), the     *)
(* File record being processed, the open file/image handles and what was   *)
(* reported for each file.  File names are sequences of characters so that *)
(* the regular expressions of the source are computed, not assumed.        *)
(***************************************************************************)
EXTENDS Integers, Sequences, FiniteSets, TLC

\* ------------------------------------------------------------------ bounds
MaxFiles == 2      \* most files present under the input root

\* ------------------------------------------------------ strings, as tuples
Digits == {"0", "1", "2", "3", "4", "5", "6", "7", "8", "9"}

IsDigit(c) == c \in Digits

\* str.lower() on the characters that occur in the modelled file names
Lower(c) ==
    CASE c = "J" -> "j" [] c = "P" -> "p" [] c = "G" -> "g" [] c = "E" -> "e"
      [] c = "M" -> "m" [] OTHER -> c

LowerStr(s) == [i \in 1..Len(s) |-> Lower(s[i])]

AllDigits(s, from, n) == \A k \in 0..(n - 1) : IsDigit(s[from + k])

\* the names found under the input root; the directory of each is Rel
NameImgTimed  == <<"2","0","2","3","0","4","1","6"," ","a","t"," ","1","4",".","0","5",".","0","9",".","J","P","E","G">>
NameImgPlain  == <<"p","h","o","t","o",".","j","p","g">>
NameVidDated  == <<"V","I","D","-","2","0","2","3","0","4","1","7",".","M","P","4">>
NameOther     == <<"2","0","2","3","0","4","1","8",".","t","x","t">>

Universe == {NameImgTimed, NameImgPlain, NameVidDated, NameOther}

\* relative directory of each name under the input root ("" is the root)
Rel(name) == IF name \in {NameVidDated, NameImgPlain} THEN "sub" ELSE ""

FILES_EXT == {<<"j","p","e","g">>, <<"j","p","g">>, <<"m","p","4">>}
VIDEO_EXT == {<<"m","p","4">>}
IMAGE_EXT == {<<"j","p","e","g">>, <<"j","p","g">>}

\* os.path.splitext(filename)[1][1:].lower()
Extension(name) ==
    LET dots == {i \in 1..Len(name) : name[i] = "."}
    IN  IF dots = {} THEN <<>>
        ELSE LET last == CHOOSE i \in dots : \A j \in dots : j <= i
             IN  LowerStr(SubSeq(name, last + 1, Len(name)))

is_video(name) == Extension(name) \in VIDEO_EXT

\* re.search(REGEX_FILENAME_DATE, filename): first run of eight digits
DateMatches(name) == {i \in 1..Len(name) : i + 7 <= Len(name) /\ AllDigits(name, i, 8)}

\* re.search(r'at (\d{2})\.(\d{2})\.(\d{2})', filename)
TimeMatchAt(name, i) ==
    /\ i + 10 <= Len(name)
    /\ name[i] = "a" /\ name[i + 1] = "t" /\ name[i + 2] = " "
    /\ AllDigits(name, i + 3, 2) /\ name[i + 5] = "."
    /\ AllDigits(name, i + 6, 2) /\ name[i + 8] = "."
    /\ AllDigits(name, i + 9, 2)

TimeMatches(name) == {i \in 1..Len(name) : TimeMatchAt(name, i)}

Min(S) == CHOOSE x \in S : \A y \in S : x <= y

\* parse_filename_to_date: the value left in file.parsed_date ("" if no date)
parse_filename_to_date(name) ==
    IF DateMatches(name) = {} THEN <<>>
    ELSE LET d == Min(DateMatches(name))
             date_str == SubSeq(name, d, d + 3) \o <<":">> \o SubSeq(name, d + 4, d + 5)
                         \o <<":">> \o SubSeq(name, d + 6, d + 7)
             time_str == IF TimeMatches(name) = {}
                         THEN <<"0","0",":","0","0",":","0","0">>
                         ELSE LET t == Min(TimeMatches(name))
                              IN  SubSeq(name, t + 3, t + 4) \o <<":">> \o SubSeq(name, t + 6, t + 7)
                                  \o <<":">> \o SubSeq(name, t + 9, t + 10)
         IN  date_str \o <<" ">> \o time_str

\* ------------------------------------------------------------ EXIF values
\* tag identifiers of the Exif IFD (piexif.ExifIFD)
DateTimeOriginal  == "DateTimeOriginal"
DateTimeDigitized == "DateTimeDigitized"
ExifVersion       == "ExifVersion"

\* exif_date_pattern of check_exif matched at position i of a decoded value
ExifDateAt(v, i) ==
    /\ i + 18 <= Len(v)
    /\ AllDigits(v, i, 4) /\ v[i + 4] = ":" /\ AllDigits(v, i + 5, 2) /\ v[i + 7] = ":"
    /\ AllDigits(v, i + 8, 2) /\ v[i + 10] = " "
    /\ AllDigits(v, i + 11, 2) /\ v[i + 13] = ":" /\ AllDigits(v, i + 14, 2) /\ v[i + 16] = ":"
    /\ AllDigits(v, i + 17, 2)

\* check_exif on the 'Exif' mapping that export_exif_data returned
check_exif(data) ==
    \E tag \in DOMAIN data : \E i \in 1..Len(data[tag]) : ExifDateAt(data[tag], i)

\* new_image_exif_data: the Exif mapping that piexif.dump encodes
new_image_exif_data(parsed_date) ==
    (DateTimeOriginal :> parsed_date) @@ (DateTimeDigitized :> parsed_date)

NoExif      == <<>>
VersionExif == (ExifVersion :> <<"0","2","3","2">>)
DatedExif   == (DateTimeOriginal :> <<"2","0","1","9",":","0","1",":","0","2"," ","0","3",":","0","4",":","0","5">>)

SourceExifChoices == {NoExif, VersionExif, DatedExif}

\* --------------------------------------------------------- file contents
Absent == [tag |-> "absent", exif |-> NoExif, date |-> <<>>]

Original(exif) == [tag |-> "original", exif |-> exif, date |-> <<>>]

Old == [tag |-> "old", exif |-> NoExif, date |-> <<>>]

\* what remains of a write that an error interrupted
Partial == [tag |-> "partial", exif |-> NoExif, date |-> <<>>]

\* img.save(new_file_path, exif=file.exif_bytes): the image with the payload
SavedImage(exif_bytes) == [tag |-> "image", exif |-> exif_bytes, date |-> <<>>]

\* exiftool -overwrite_original -CreateDate=... on the copied video
TaggedVideo(content, parsed_date) == [tag |-> "video", exif |-> content.exif, date |-> parsed_date]

Roots == {"in", "out"}
Paths == Roots \X Universe

\* The ways process_file ends for a file, named as the outcomes they stand for:
\*   skipped_has_metadata        spinner.info, line 256
\*   skipped_no_date_found       spinner.warn, line 261
\*   skipped_tool_unavailable    spinner.fail, line 266
\*   skipped_destination_exists  logger.debug and return None, lines 172-173, 208-210
\*   written                     spinner.succeed, line 284
\*   failed                      logger.error and return None, lines 196-198, or
\*                               spinner.info of main's except clause, line 246
Outcomes == {"skipped_has_metadata", "skipped_no_date_found", "skipped_destination_exists",
             "skipped_tool_unavailable", "written", "failed"}

\* ------------------------------------------------------------------ state
VARIABLES
    fs,            \* content of every path (Absent when there is no file)
    dirs,          \* existing directories, as <<root, relative_dir>>
    inputExists,   \* args.input_path is an existing directory
    recursive,     \* args.recursive
    overwrite,     \* args.overwrite
    sameRoot,      \* args.output_path is args.input_path
    toolAvail,     \* exiftool is on the PATH during this run
    run,           \* number of the current run of main()
    pc,            \* position of main() / process_file()
    files,         \* files_list of main()
    idx,           \* position of the for loop in files_list
    file,          \* the File record being processed
    handles,       \* open file and image handles of the process
    outcome,       \* what this run reported for each file name
    reports,       \* how many outcomes this run reported for each file name
    attempts,      \* how many times this run called process_file for a name
    raised,        \* names whose processing raised into main() in this run
    steps,         \* the steps taken for the current file, in order
    fs0,           \* the file system before the first run
    fsBefore,      \* the file system when the current file was started
    firstOutcome,  \* the outcomes of the first run
    firstFs        \* the file system at the end of the first run

args == <<inputExists, recursive, overwrite, sameRoot>>
env  == <<args, toolAvail, run, fs0, firstOutcome, firstFs>>
loop == <<files, idx, attempts, fsBefore>>
vars == <<fs, dirs, env, pc, loop, file, handles, outcome, reports, raised, steps>>

OutRoot == IF sameRoot THEN "in" ELSE "out"

\* file.file_path
Source(name) == <<"in", name>>

\* os.path.join(target_dir, file.filename)
Target(name) == <<OutRoot, name>>

\* os.makedirs(target_dir, exist_ok=True)
makedirs(d, name) == d \cup {<<OutRoot, "">>, <<OutRoot, Rel(name)>>}

\* os.path.isfile: a regular file that get_files_from_path lists and that
\* open() and Image.open() can open
isfile(f, path) == f[path] # Absent

\* the collision check that never finds the target
exists_never(f, path) == FALSE

\* os.path.exists(new_file_path)
exists(f, path) == f[path] # Absent

\* os.remove(new_file_path)
remove(f, path) == [f EXCEPT ![path] = Absent]

\* the probe that finds exiftool whether it is installed or not
check_exiftool_found == TRUE

\* check_exiftool: shutil.which('exiftool') is not None
check_exiftool == toolAvail

\* the presence check that never stops a file
HasExifDate_ignored(video, found) == FALSE

\* process_file line 255: "not is_video and check_exif(file)"
HasExifDate(video, found) == ~video /\ found

\* the video branch that goes straight to save_video_exif_data
AfterParse_unchecked(video) == IF video THEN "v_makedirs" ELSE "image_open"

\* process_file lines 264-274: what follows a parsed date
AfterParse(video) == IF video THEN "check_exiftool" ELSE "image_open"

\* an exception that ends main
OnException_abort == "crashed"

\* main lines 245-246: the except clause reports and the loop goes on
OnException == "loop"

\* a return from process_file goes back to the for loop of main
OnReturn == "loop"

Perms(S) == {s \in [1..Cardinality(S) -> S] : \A i, j \in 1..Cardinality(S) : s[i] = s[j] => i = j}

NoOutcome == [n \in Universe |-> "none"]
NewFile(name) == [filename |-> name, parsed_date |-> <<>>, exif_bytes |-> NoExif]

Init ==
    /\ inputExists \in BOOLEAN
    /\ recursive \in BOOLEAN
    /\ overwrite \in BOOLEAN
    /\ sameRoot \in BOOLEAN
    /\ toolAvail \in BOOLEAN
    /\ \E disk \in SUBSET Universe :
         /\ Cardinality(disk) <= MaxFiles
         /\ ~inputExists => disk = {}
         /\ \E pre \in SUBSET {n \in disk : Extension(n) \in FILES_EXT} : \E ex \in [disk -> SourceExifChoices] :
              /\ sameRoot => pre = {}
              /\ \A n \in disk : Extension(n) \notin IMAGE_EXT => ex[n] = NoExif
              /\ fs = [p \in Paths |->
                        IF p[1] = "in"
                        THEN (IF p[2] \in disk THEN Original(ex[p[2]]) ELSE Absent)
                        ELSE (IF p[2] \in pre THEN Old ELSE Absent)]
              /\ dirs = (IF inputExists THEN {<<"in", "">>} ELSE {})
                        \cup {<<"in", Rel(n)>> : n \in disk}
                        \cup {<<"out", "">> : n \in pre}
                        \cup {<<"out", Rel(n)>> : n \in pre}
    /\ fs0 = fs
    /\ fsBefore = fs
    /\ firstFs = fs
    /\ run = "first"
    /\ pc = "inventory"
    /\ files = <<>>
    /\ idx = 0
    /\ file = NewFile(<<>>)
    /\ handles = {}
    /\ outcome = NoOutcome
    /\ firstOutcome = NoOutcome
    /\ reports = [n \in Universe |-> 0]
    /\ attempts = [n \in Universe |-> 0]
    /\ raised = {}
    /\ steps = <<>>

\* ----------------------------------------------------- ends of process_file
Step(s) == steps' = Append(steps, s)

Goto(p) == pc' = p /\ UNCHANGED <<outcome, reports, raised>>

\* process_file returns after reporting (or, for a None result, logging) o
Report(o) ==
    /\ pc' = OnReturn
    /\ outcome' = [outcome EXCEPT ![file.filename] = o]
    /\ reports' = [reports EXCEPT ![file.filename] = @ + 1]
    /\ UNCHANGED raised

\* main lines 245-246: an exception leaves process_file and is reported by
\* spinner.info.  Handles that process_file left open (set h) are closed only
\* if the runtime happens to reclaim them.
Except(h) ==
    /\ pc' = OnException
    /\ outcome' = [outcome EXCEPT ![file.filename] = "failed"]
    /\ reports' = [reports EXCEPT ![file.filename] = @ + 1]
    /\ raised' = raised \cup {file.filename}
    /\ \E reclaimed \in BOOLEAN : handles' = IF reclaimed THEN {} ELSE h

\* ------------------------------------------------------------------- main
\* get_files_from_path, recursive=False: os.listdir raises on a missing root
\* and nothing in main catches it
InventoryError ==
    /\ pc = "inventory"
    /\ ~inputExists /\ ~recursive
    /\ pc' = "crashed"
    /\ UNCHANGED <<fs, dirs, env, loop, file, handles, outcome, reports, raised, steps>>

\* the files get_files_from_path returns: regular files under the root (of
\* its sub-directories too when recursive) with an extension in FILES_EXT
Candidates ==
    {n \in Universe : /\ isfile(fs, Source(n))
                      /\ recursive \/ Rel(n) = ""
                      /\ Extension(n) \in FILES_EXT}

\* get_files_from_path: os.walk yields nothing for a missing root; the order
\* of os.listdir / os.walk is arbitrary
Inventory ==
    /\ pc = "inventory"
    /\ inputExists \/ recursive
    /\ \E order \in Perms(Candidates) : files' = order
    /\ idx' = 0
    /\ pc' = "loop"
    /\ UNCHANGED <<fs, dirs, env, attempts, fsBefore, file, handles, outcome, reports, raised, steps>>

\* main line 237-244 and process_file lines 252-255: the next file
NextFile ==
    /\ pc = "loop"
    /\ idx < Len(files)
    /\ idx' = idx + 1
    /\ file' = NewFile(files[idx + 1])
    /\ attempts' = [attempts EXCEPT ![files[idx + 1]] = @ + 1]
    /\ fsBefore' = fs
    /\ steps' = <<>>
    /\ pc' = IF is_video(files[idx + 1]) THEN "parse" ELSE "export_open"
    /\ UNCHANGED <<fs, dirs, env, files, handles, outcome, reports, raised>>

\* main line 248: spinner.succeed("Run complete.")
RunComplete ==
    /\ pc = "loop"
    /\ idx >= Len(files)
    /\ pc' = "done"
    /\ UNCHANGED <<fs, dirs, env, loop, file, handles, outcome, reports, raised, steps>>

\* the program is started a second time with the same arguments; whether
\* exiftool is installed by then is open
NextRun ==
    /\ pc = "done"
    /\ run = "first"
    /\ run' = "second"
    /\ toolAvail' \in BOOLEAN
    /\ firstOutcome' = outcome
    /\ firstFs' = fs
    /\ pc' = "inventory"
    /\ files' = <<>>
    /\ idx' = 0
    /\ file' = NewFile(<<>>)
    /\ handles' = {}
    /\ outcome' = NoOutcome
    /\ reports' = [n \in Universe |-> 0]
    /\ attempts' = [n \in Universe |-> 0]
    /\ raised' = {}
    /\ steps' = <<>>
    /\ fsBefore' = fs
    /\ UNCHANGED <<fs, dirs, args, fs0>>

\* ------------------------------------------------------------ presence check
\* export_exif_data line 92: open(file.file_path, 'rb')
ExportOpen ==
    /\ pc = "export_open"
    /\ \/ /\ isfile(fs, Source(file.filename))
          /\ handles' = handles \cup {"f"}
          /\ Step("open")
          /\ Goto("export_load")
       \/ /\ Step("open_raise")
          /\ Except(handles)
    /\ UNCHANGED <<fs, dirs, env, loop, file>>

\* export_exif_data lines 93-100 and check_exif lines 111-123; the with
\* block closes f on every way out
ExportLoad ==
    /\ pc = "export_load"
    /\ \/ /\ Step("load_raise")
          /\ Except(handles \ {"f"})
       \/ /\ handles' = handles \ {"f"}
          /\ LET found == check_exif(fs[Source(file.filename)].exif)
             IN  /\ Step(IF found THEN "exif_found" ELSE "exif_not_found")
                 /\ IF HasExifDate(is_video(file.filename), found)
                    THEN Report("skipped_has_metadata")
                    ELSE Goto("parse")
    /\ UNCHANGED <<fs, dirs, env, loop, file>>

\* process_file lines 259-262
Parse ==
    /\ pc = "parse"
    /\ LET parsed == parse_filename_to_date(file.filename)
       IN  /\ file' = [file EXCEPT !.parsed_date = parsed]
           /\ IF parsed = <<>>
              THEN Step("no_date") /\ Report("skipped_no_date_found")
              ELSE /\ Step("parsed")
                   /\ Goto(AfterParse(is_video(file.filename)))
    /\ UNCHANGED <<fs, dirs, env, loop, handles>>

\* ------------------------------------------------------------- video path
\* process_file lines 264-267
CheckExiftool ==
    /\ pc = "check_exiftool"
    /\ IF check_exiftool
       THEN Step("tool_found") /\ Goto("v_makedirs")
       ELSE Step("tool_missing") /\ Report("skipped_tool_unavailable")
    /\ UNCHANGED <<fs, dirs, env, loop, file, handles>>

\* save_video_exif_data lines 166-168
VideoMakedirs ==
    /\ pc = "v_makedirs"
    /\ \/ /\ dirs' = makedirs(dirs, file.filename)
          /\ Step("makedirs")
          /\ Goto("v_exists")
          /\ UNCHANGED handles
       \/ /\ Step("makedirs_raise")
          /\ Except(handles)
          /\ UNCHANGED dirs
    /\ UNCHANGED <<fs, env, loop, file>>

\* save_video_exif_data lines 170-174
VideoExists ==
    /\ pc = "v_exists"
    /\ LET new_file_path == Target(file.filename)
       IN  IF exists(fs, new_file_path)
           THEN IF ~overwrite
                THEN /\ Step("exists_skip")
                     /\ Report("skipped_destination_exists")
                     /\ UNCHANGED <<fs, handles>>
                ELSE \/ /\ fs' = remove(fs, new_file_path)
                        /\ Step("removed")
                        /\ Goto("v_copy")
                        /\ UNCHANGED handles
                     \/ /\ Step("remove_raise")
                        /\ Except(handles)
                        /\ UNCHANGED fs
           ELSE /\ Step("free")
                /\ Goto("v_copy")
                /\ UNCHANGED <<fs, handles>>
    /\ UNCHANGED <<dirs, env, loop, file>>

\* save_video_exif_data line 177: shutil.copy2(file.file_path, new_file_path).
\* A missing source raises before the target is created; any other error
\* leaves what was written so far.
VideoCopy ==
    /\ pc = "v_copy"
    /\ LET new_file_path == Target(file.filename)
           source == Source(file.filename)
       IN  IF ~isfile(fs, source)
           THEN /\ Step("copy_no_source")
                /\ Except(handles)
                /\ UNCHANGED fs
           ELSE \/ /\ fs' = [fs EXCEPT ![new_file_path] = fs[source]]
                   /\ Step("copied")
                   /\ Goto("v_tool")
                   /\ UNCHANGED handles
                \/ /\ fs' = [fs EXCEPT ![new_file_path] = Partial]
                   /\ Step("copy_raise")
                   /\ Except(handles)
    /\ UNCHANGED <<dirs, env, loop, file>>

\* the handler that leaves the copy in place
CleanUpAfterTool_kept(f, path) == f

\* save_video_exif_data line 197: os.remove(new_file_path) in the handler;
\* the file is the copy line 177 has just made, so the removal succeeds
CleanUpAfterTool(f, path) == remove(f, path)

\* save_video_exif_data lines 180-198 and process_file lines 283-284:
\* subprocess.run(cmd, check=True, ...) ends with status 0, with a non-zero
\* status (CalledProcessError) or with another error (the program cannot be
\* started), which no handler of save_video_exif_data catches
VideoTool ==
    /\ pc = "v_tool"
    /\ LET new_file_path == Target(file.filename)
       IN  \/ /\ fs' = [fs EXCEPT ![new_file_path] = TaggedVideo(fs[new_file_path], file.parsed_date)]
              /\ Step("tool_ok")
              /\ Report("written")
              /\ UNCHANGED handles
           \/ /\ fs' = CleanUpAfterTool(fs, new_file_path)
              /\ Step("tool_nonzero")
              /\ Report("failed")
              /\ UNCHANGED handles
           \/ /\ Step("tool_raise")
              /\ Except(handles)
              /\ UNCHANGED fs
    /\ UNCHANGED <<dirs, env, loop, file>>

\* ------------------------------------------------------------- image path
\* process_file lines 274-275: Image.open keeps the source file open; then
\* new_image_exif_data fills file.exif_bytes
ImageOpen ==
    /\ pc = "image_open"
    /\ \/ /\ isfile(fs, Source(file.filename))
          /\ handles' = handles \cup {"im"}
          /\ file' = [file EXCEPT !.exif_bytes = new_image_exif_data(file.parsed_date)]
          /\ Step("image_open")
          /\ Goto("i_makedirs")
       \/ /\ Step("image_open_raise")
          /\ Except(handles)
          /\ UNCHANGED file
    /\ UNCHANGED <<fs, dirs, env, loop>>

\* save_exif_data lines 202-204
ImageMakedirs ==
    /\ pc = "i_makedirs"
    /\ \/ /\ dirs' = makedirs(dirs, file.filename)
          /\ Step("makedirs")
          /\ Goto("i_exists")
          /\ UNCHANGED handles
       \/ /\ Step("makedirs_raise")
          /\ Except(handles)
          /\ UNCHANGED dirs
    /\ UNCHANGED <<fs, env, loop, file>>

\* save_exif_data lines 206-211
ImageExists ==
    /\ pc = "i_exists"
    /\ LET new_file_path == Target(file.filename)
       IN  IF exists(fs, new_file_path)
           THEN IF ~overwrite
                THEN /\ Step("exists_skip")
                     /\ handles' = handles \ {"im"}
                     /\ Report("skipped_destination_exists")
                     /\ UNCHANGED fs
                ELSE \/ /\ fs' = remove(fs, new_file_path)
                        /\ Step("removed")
                        /\ Goto("i_save")
                        /\ UNCHANGED handles
                     \/ /\ Step("remove_raise")
                        /\ Except(handles)
                        /\ UNCHANGED fs
           ELSE /\ Step("free")
                /\ Goto("i_save")
                /\ UNCHANGED <<fs, handles>>
    /\ UNCHANGED <<dirs, env, loop, file>>

\* save_exif_data lines 213-217: img.save reads the pixels through the handle
\* Image.open left open and writes the target; an error during the save
\* leaves a partial target or none (the imaging library may remove it)
ImageSave ==
    /\ pc = "i_save"
    /\ LET new_file_path == Target(file.filename)
       IN  \/ /\ fs' = [fs EXCEPT ![new_file_path] = SavedImage(file.exif_bytes)]
              /\ handles' = handles \ {"im"}
              /\ Step("saved")
              /\ Goto("verify_open")
           \/ /\ \E left \in {Partial, Absent} : fs' = [fs EXCEPT ![new_file_path] = left]
              /\ Step("save_raise")
              /\ Except(handles)
    /\ UNCHANGED <<dirs, env, loop, file>>

\* save_exif_data lines 220-226, export_exif_data line 92 on the saved file
VerifyOpen ==
    /\ pc = "verify_open"
    /\ \/ /\ handles' = handles \cup {"f"}
          /\ Step("verify_open")
          /\ Goto("verify_load")
       \/ /\ Step("verify_open_raise")
          /\ Except(handles)
    /\ UNCHANGED <<fs, dirs, env, loop, file>>

\* save_exif_data lines 226-229 and process_file lines 283-284: a failed
\* verification only logs a warning
VerifyLoad ==
    /\ pc = "verify_load"
    /\ \/ /\ Step("verify_raise")
          /\ Except(handles \ {"f"})
       \/ /\ handles' = handles \ {"f"}
          /\ IF check_exif(fs[Target(file.filename)].exif)
             THEN Step("verified")
             ELSE Step("verify_warning")
          /\ Report("written")
    /\ UNCHANGED <<fs, dirs, env, loop, file>>

Next ==
    \/ InventoryError \/ Inventory \/ NextFile \/ RunComplete
    \/ ExportOpen \/ ExportLoad \/ Parse
    \/ CheckExiftool \/ VideoMakedirs \/ VideoExists \/ VideoCopy \/ VideoTool
    \/ ImageOpen \/ ImageMakedirs \/ ImageExists \/ ImageSave
    \/ VerifyOpen \/ VerifyLoad

\* one run of main()
Spec == Init /\ [][Next]_vars

\* two consecutive runs with overwrite disabled, over an output root apart
\* from the input root that holds none of the targets at the start
RerunInit ==
    /\ Init
    /\ ~overwrite
    /\ ~sameRoot
    /\ \A n \in Universe : fs[<<"out", n>>] = Absent

RerunNext == Next \/ NextRun

RerunSpec == RerunInit /\ [][RerunNext]_vars

\* ------------------------------------------------------------------ claims
Range(q) == {q[i] : i \in 1..Len(q)}

\* process_file has ended for file.filename and the next file is not started
Ended == idx >= 1 /\ pc \in {"loop", "done"}

Last(q) == q[Len(q)]

\* the i-th step taken, "none" when fewer were taken
At(q, i) == IF i \in 1..Len(q) THEN q[i] ELSE "none"

C2_ToolFailureCleanup ==
    (Ended /\ "tool_nonzero" \in Range(steps)) =>
        /\ fs[Target(file.filename)] = Absent
        /\ outcome[file.filename] = "failed"
        /\ reports[file.filename] = 1
        /\ file.filename \notin raised

\* exiftool failed on a video whose old target had been removed for overwrite
C2_Witness ==
    /\ Ended
    /\ "tool_nonzero" \in Range(steps)
    /\ "removed" \in Range(steps)
    /\ fsBefore[Target(file.filename)] = Old

\* C3: in a run without exiftool, no step of the processing of a video
\* changes a file or a directory, and a video with a date in its name ends
\* with skipped_tool_unavailable.
C3_ToolAbsent ==
    [][(/\ ~toolAvail
        /\ pc \notin {"inventory", "loop", "done", "crashed"}
        /\ is_video(file.filename))
       => (/\ fs' = fs
           /\ dirs' = dirs
           /\ handles' = handles
           /\ (pc' \in {"loop", "done", "crashed"} /\ parse_filename_to_date(file.filename) # <<>>)
                => outcome'[file.filename] = "skipped_tool_unavailable")]_vars

\* a dated video was skipped for want of exiftool and has no target
C3_Witness ==
    /\ Ended /\ ~toolAvail /\ is_video(file.filename)
    /\ parse_filename_to_date(file.filename) # <<>>
    /\ outcome[file.filename] = "skipped_tool_unavailable"
    /\ fs[Target(file.filename)] = Absent
    /\ ~sameRoot

\* the files of files_list before / after the loop position
DoneFiles == {files[i] : i \in 1..idx}
LeftFiles == {files[i] : i \in (idx + 1)..Len(files)}

C4_Counts ==
    /\ \A n \in DoneFiles :
         /\ attempts[n] = 1
         /\ n \in raised => outcome[n] = "failed"
         /\ IF n = file.filename /\ pc \notin {"loop", "done"}
            THEN reports[n] = 0 /\ outcome[n] = "none"
            ELSE reports[n] = 1 /\ outcome[n] \in Outcomes
    /\ \A n \in Universe \ DoneFiles :
         attempts[n] = 0 /\ reports[n] = 0 /\ outcome[n] = "none"
    /\ raised \subseteq DoneFiles
    /\ pc = "done" => LeftFiles = {}

C4_OneAtATime ==
    /\ \A n \in Universe : outcome'[n] # outcome[n] => n = file.filename
    /\ idx' \in {idx, idx + 1}
    /\ (pc \in {"loop", "done"} /\ idx >= 1) =>
           outcome'[file.filename] = outcome[file.filename]

\* how many steps process_file can still take from position p
Rank(p) ==
    CASE p = "export_open" -> 12 [] p = "export_load" -> 11 [] p = "parse" -> 10
      [] p \in {"check_exiftool", "image_open"} -> 9
      [] p \in {"v_makedirs", "i_makedirs"} -> 8
      [] p \in {"v_exists", "i_exists"} -> 7
      [] p \in {"v_copy", "i_save"} -> 6
      [] p \in {"v_tool", "verify_open"} -> 5
      [] p = "verify_load" -> 4
      [] p = "loop" -> 1
      [] OTHER -> 0

\* a bound on the steps main can still take once the list is built
StepsLeft == (Len(files) - idx) * 13 + Rank(pc)

\* once the list is built the run is at "Run complete." or can take a step
C4_NotStuck == pc \in {"inventory", "done"} \/ (pc = "crashed" /\ idx = 0) \/ ENABLED Next

\* every step after the inventory brings the end of the loop nearer
C4_Progress == pc # "inventory" => (StepsLeft' < StepsLeft /\ StepsLeft' >= 0)

\* C4: whatever steps raise, the loop of main ends (it is never stuck before
\* "Run complete." and every step shortens what is left) having called
\* process_file once for every file of the list, in the list's order; an
\* error raised for a file becomes that file's failed outcome and changes no
\* other file's outcome, and every file has exactly one outcome.
C4_EveryFileOnce ==
    /\ [](C4_Counts /\ C4_NotStuck)
    /\ [][C4_OneAtATime /\ C4_Progress]_vars

\* the first of two files raised an error and the second was written
C4_Witness ==
    /\ pc = "done" /\ Len(files) = 2
    /\ files[1] \in raised
    /\ outcome[files[1]] = "failed"
    /\ outcome[files[2]] = "written"

\* C5: an image in which check_exif found a capture date ends there: it is
\* reported skipped_has_metadata, no date is parsed, no payload is built and
\* no file or directory step follows, whatever its name and the overwrite flag.
C5_PresenceShortCircuit ==
    ("exif_found" \in Range(steps)) =>
        /\ steps = <<"open", "exif_found">>
        /\ pc \in {"loop", "done"}
        /\ outcome[file.filename] = "skipped_has_metadata"
        /\ file.parsed_date = <<>>
        /\ file.exif_bytes = NoExif
        /\ fs = fsBefore

\* such an image, with a date in its name, under overwrite, its target present
C5_Witness ==
    /\ Ended /\ overwrite
    /\ "exif_found" \in Range(steps)
    /\ parse_filename_to_date(file.filename) # <<>>
    /\ fs[Target(file.filename)] = Old

\* C6: a missing input root ends the run with an error before the loop:
\* neither the loop nor "Run complete." is reached, recursive or not.
C6_InventoryErrorFatal ==
    ~inputExists => pc \notin {"loop", "done"}

\* C7: after a hard failure raised once the write to the target had begun
\* (img.save, shutil.copy2 or subprocess.run raising), nothing is left at the
\* target path.
C7_HardFailureCleanup ==
    (Ended /\ steps # <<>> /\ Last(steps) \in {"save_raise", "copy_raise", "tool_raise"}) =>
        fs[Target(file.filename)] = Absent

\* C8: when main goes on to the next file, no handle opened for the file
\* before is open.
C8_HandlesReleased ==
    pc = "loop" => handles = {}

C10_SourcesUntouched ==
    pc = "done" => \A n \in Universe : fs[Source(n)] = fs0[Source(n)]

=============================================================================
